---------------------------- MODULE Spec2Model ----------------------------
(***************************************************************************)
(* GitHubBranchManager (src/github.py): a client object that ensures a     *)
(* branch exists on a remote repository host and upserts a JSON file on    *)
(* it.  The model has two parts:                                           *)
(*   - the remote host: a commit store (each commit has a parent and a     *)
(*     tree of files) and the branch refs, answering the six API calls     *)
(*     the code issues (get_repo, get_git_ref, create_git_ref,             *)
(*     get_contents, update_file, create_file);                            *)
(*   - the clients: each runs __init__, create_branch, upload_json_file    *)
(*     or create_branch_and_upload_json one remote call at a time; every   *)
(*     remote call may also fail for a reason that is not in the host's    *)
(*     state (network, authorization, rate limit), which the code sees as  *)
(*     an exception.                                                       *)
(* A failed request is modelled as not applied by the host.                *)
(* A second part models the lambda embedded in src/instance-schedular.py:   *)
(* lambda_handler and the four operations it dispatches to, running        *)
(* against RDS (the resources' tags) one request at a time.                *)
(***************************************************************************)
EXTENDS Naturals, Sequences, FiniteSets, TLC

\* ------------------------------------------------------------------ bounds
\* Top-level calls a client makes in one behaviour.
MaxCalls == 2
\* Top-level calls the two racing clients make together in one behaviour.
MaxRaceCalls == 2
\* Invocations of the lambda in one behaviour.
MaxInvocations == 2

\* ------------------------------------------------------------ value domains
Clients == {"c1", "c2"}
None == "<None>"                 \* Python's None
NA == "-"                        \* an argument the called operation does not take
RepoNames == {"acme/widgets", "acme/gone"}
HostRepos == {"acme/widgets"}    \* the repositories the host resolves
BranchNames == {"main", "feature-x"}
Paths == {"config/settings.json", "data/config.json"}
JsonData == {"v1", "v2"}
Messages == {"Add configuration settings"}
TokenArgs == {None, "", "arg-token"}
EnvTokens == {None, "", "env-token"}

NoFile == "<absent>"
NoCommit == 0

\* json.dumps(json_data, indent=2): the text form of the value.
JsonDumps(d) == "{\n  \"version\": \"" \o d \o "\"\n}"
\* .encode("utf-8") then base64.b64encode(...).decode("utf-8"): the transport form.
B64Encode(s) == "b64(" \o s \o ")"
\* The host's revision token of a stored blob: a hash of its content.
BlobSha(content) == "sha(" \o content \o ")"
OldContent == B64Encode(JsonDumps("v0"))

VARIABLES
    commits,   \* host: the commit store, commits[i] = [parent, tree]
    refs,      \* host: branch name -> commit number, NoCommit when the ref is absent
    manager,   \* client -> the token its GitHubBranchManager holds, None before construction
    pc,        \* client -> position in the code
    locals,    \* client -> base_sha, existing_file.sha, encoded_content of the running call
    run,       \* client -> the record of the running / last top-level call
    prev,      \* client -> what the top-level call before that one was and returned
    ncalls,    \* client -> top-level calls made so far
    tags,      \* RDS: resource ARN -> tag key -> value
    inv,       \* the lambda's running / last invocation: event, locals, position, result
    ninv       \* invocations of the lambda so far

github_vars == <<commits, refs, manager, pc, locals, run, prev, ncalls>>
lambda_vars == <<tags, inv, ninv>>
vars == <<commits, refs, manager, pc, locals, run, prev, ncalls, tags, inv, ninv>>

\* ------------------------------------------------------------------- host
HeadTree(rf, cm, b) == cm[rf[b]].tree
\* The content of path p on branch b, NoFile when the branch or the file is absent.
FileOn(rf, cm, b, p) == IF rf[b] = NoCommit THEN NoFile ELSE HeadTree(rf, cm, b)[p]

\* A write to p on b: one new commit on top of the branch head, and the ref moves to it.
CommitWrite(cm, rf, b, p, content) ==
    Append(cm, [parent |-> rf[b], tree |-> [HeadTree(rf, cm, b) EXCEPT ![p] = content]])

EmptyTree == [p \in Paths |-> NoFile]
InitTrees == {EmptyTree, [EmptyTree EXCEPT !["config/settings.json"] = OldContent]}

\* How the host answers: "ok", "rejected" (the request contradicts the host's state:
\* not found, already exists, stale token) or "error" (anything else that raises).

RepoAnswers(repo) == (IF repo \in HostRepos THEN {"ok"} ELSE {"rejected"}) \cup {"error"}
\* get_git_ref("heads/<b>")
GetRefAnswers(rf, b) == (IF rf[b] # NoCommit THEN {"ok"} ELSE {"rejected"}) \cup {"error"}
\* create_git_ref(ref="refs/heads/<b>", sha): refused when the ref exists or sha is no commit.
CreateRefAnswers(rf, cm, b, sha) ==
    (IF rf[b] = NoCommit /\ sha \in 1..Len(cm) THEN {"ok"} ELSE {"rejected"}) \cup {"error"}
\* get_contents(p, ref=b)
GetContentsAnswers(rf, cm, b, p) ==
    (IF FileOn(rf, cm, b, p) # NoFile THEN {"ok"} ELSE {"rejected"}) \cup {"error"}
\* update_file(p, ..., sha, branch=b): refused unless sha is the token of the stored blob.
UpdateFileAnswers(rf, cm, b, p, sha) ==
    (IF FileOn(rf, cm, b, p) # NoFile /\ sha = BlobSha(FileOn(rf, cm, b, p))
     THEN {"ok"} ELSE {"rejected"}) \cup {"error"}
\* create_file(p, ..., branch=b): refused when the branch is absent or the file exists.
CreateFileAnswers(rf, cm, b, p) ==
    (IF rf[b] # NoCommit /\ FileOn(rf, cm, b, p) = NoFile THEN {"ok"} ELSE {"rejected"})
    \cup {"error"}

\* ----------------------------------------------------------------- client
Truthy(x) == x \notin {None, ""}

\* Faulty variant: the environment variable is looked at first.
ResolveTokenEnvFirst(token, env) == IF Truthy(env) THEN env ELSE token
\* self.token = token or os.environ.get("GITHUB_TOKEN")
ResolveToken(token, env) == IF Truthy(token) THEN token ELSE env

\* if not self.token: raise ValueError(...)
TokenMissing(t) == ~Truthy(t)

\* Faulty variant: a base branch that does not resolve is not treated as a failure.
CbAfterBaseLookupGoOn(res) == "cb_get_ref"
\* create_branch, after the lookup of the base branch: go on, or the exception
\* reaches the outer handler, which returns False.
CbAfterBaseLookup(res) == IF res = "ok" THEN "cb_get_ref" ELSE "return"

\* Faulty variant: only the answer 'no such branch' leads to the creation.
CbAfterLookupCreateIfAbsent(res) == IF res = "rejected" THEN "cb_create_ref" ELSE "return"
\* Faulty variant: the lookup's answer is ignored and the ref is always created.
CbAfterLookupAlwaysCreate(res) == "cb_create_ref"
\* create_branch, after the lookup of the target branch: return (it exists) or create it.
CbAfterLookup(res) == IF res = "ok" THEN "return" ELSE "cb_create_ref"

\* Faulty variant: an existing target branch is reset to the base head.
RefsResetToBase(rf, b, sha) == [rf EXCEPT ![b] = sha]
\* The refs after the 'already exists' path of create_branch: it only prints.
RefsWhenBranchExists(rf, b, sha) == rf

\* Faulty variant: the new branch starts at the repository's first commit.
CreateRefShaRoot(l) == 1
\* The sha create_branch passes to create_git_ref: base_ref.object.sha.
CreateRefSha(l) == l.base_sha

\* Faulty variant: a failed creation of the ref is swallowed like a failed lookup.
CbAfterCreateRefTrue(res) == TRUE
\* create_branch, after create_git_ref: return True, or the exception leaves the inner
\* handler for the outer one, which returns False.
CbAfterCreateRef(res) == res = "ok"

\* Faulty variant: update_file is given the token of a revision read some time before.
UpdateFileShaCached(l) == BlobSha(OldContent)
\* The sha upload_json_file passes to update_file: existing_file.sha.
UpdateFileSha(l) == l.existing_sha

\* Faulty variant: the file is created whatever the lookup answered.
UpAfterLookupAlwaysCreate(res) == "up_create"
\* upload_json_file, after get_contents: update the file found, or (bare except) create it.
UpAfterLookup(res) == IF res = "ok" THEN "up_update" ELSE "up_create"

\* upload_json_file, after update_file raised: the bare except runs create_file.
\* Faulty variant: the URL is returned whether or not create_file raised.
UpAfterCreateAlwaysUrl(res, url) == url
\* What upload_json_file returns after create_file: the URL (lines 119-120), or None
\* from the outer handler when create_file raised (lines 122-124).
UpAfterCreate(res, url) == IF res = "ok" THEN url ELSE None

UpAfterUpdateFailedRetry == "up_get_contents"
UpAfterUpdateFailed == "up_create"

\* Faulty variant: the URL of the branch's tree view.
FileUrlTree(repo_name, branch_name, file_path) ==
    "https://github.com/" \o repo_name \o "/tree/" \o branch_name \o "/" \o file_path
\* file_url = f"https://github.com/{repo_name}/blob/{branch_name}/{file_path}"
FileUrl(repo_name, branch_name, file_path) ==
    "https://github.com/" \o repo_name \o "/blob/" \o branch_name \o "/" \o file_path

\* Faulty variant: the orchestrator uploads whatever create_branch returned.
OrchProceedsAlways(cb_ret) == TRUE
\* if self.create_branch(...): the orchestrator goes on to the upload.
OrchProceeds(cb_ret) == cb_ret

NoArgs == [token |-> NA, env |-> NA, repo_name |-> NA, branch_name |-> NA,
           base_branch |-> NA, file_path |-> NA, json_data |-> NA, commit_message |-> NA]
NoLocals == [base_sha |-> NoCommit, existing_sha |-> NA, encoded_content |-> NA]
NoRefs == [b \in BranchNames |-> NoCommit]

\* A top-level call: what was called, the remote calls it issued so far, the state of
\* its create_branch and upload_json_file parts, and what it returned.
NewRun(op, args) ==
    [op |-> op, args |-> args, calls |-> <<>>,
     cb_state |-> "none", cb_ret |-> FALSE,
     up_state |-> "none", up_ret |-> None,
     done |-> FALSE, ret |-> None, raised |-> FALSE,
     same_args |-> FALSE,
     pre_refs |-> NoRefs, pre_file |-> NoFile]
NoRun == [NewRun("none", NoArgs) EXCEPT !.done = TRUE]

\* The remote calls of run r that called api from fn, as indices of its log.
CallsOf(r, fn, api) == {i \in 1..Len(r.calls) : r.calls[i].fn = fn /\ r.calls[i].api = api}
NCalls(r, fn, api) == Cardinality(CallsOf(r, fn, api))
\* No request of run r failed for a reason outside the host's state.
Clean(r) == \A i \in 1..Len(r.calls) : r.calls[i].res # "error"
\* Run r created a branch ref.
CreatedRef(r) ==
    \E i \in CallsOf(r, "create_branch", "create_git_ref") : r.calls[i].res = "ok"

\* What is kept of the call before the running one.
Summary(r) == [op |-> r.op, cb_ret |-> r.cb_ret, ret |-> r.ret,
               created_ref |-> CreatedRef(r)]

Call(fn, api, res, target, commit, sha) ==
    [fn |-> fn, api |-> api, res |-> res, target |-> target, commit |-> commit, sha |-> sha]
Logged(r, call) == [r EXCEPT !.calls = Append(@, call)]

\* ------------------------------------------------------------------------
\* The lambda embedded in src/instance-schedular.py (the ZipFile source of the
\* bedrock-rds-scheduler function): lambda_handler and the operations it dispatches
\* to, running against RDS one request at a time.
Absent == "<missing>"            \* a key the event or a parameter entry does not hold
Unbound == "<unbound>"           \* a local variable that was not assigned yet
NoTag == "<no tag>"

ActionGroups == {Absent, "rds-scheduler"}
ApiPaths == {Absent, "/update-rds-schedule", "/get-rds-schedule", "/list-rds-instances",
             "/create-schedule", "/delete-schedule"}
HttpMethods == {Absent, "GET"}
\* What describe_db_instances() and describe_db_clusters() list; "db-1" names both an
\* instance and a cluster.
DbInstanceList == <<"db-1">>
DbClusterList == <<"db-1", "cluster-1">>
DbInstances == {DbInstanceList[i] : i \in 1..Len(DbInstanceList)}
DbClusters == {DbClusterList[i] : i \in 1..Len(DbClusterList)}
DbIdentifiers == {"", "db-1", "cluster-1", "db-9"}
ScheduleNames == {"", "office-hours"}
ParamNames == {"db_identifier", "schedule_name"}

\* The event's parameter list: entries {name, value}; an entry may lack a key.
Entry(n, v) == [name |-> n, value |-> v]
ParamList(db, sn) ==
    (IF db = Absent THEN <<>> ELSE <<Entry("db_identifier", db)>>)
    \o (IF sn = Absent THEN <<>> ELSE <<Entry("schedule_name", sn)>>)
ParameterLists ==
    {ParamList(db, sn) : db \in DbIdentifiers \cup {Absent}, sn \in ScheduleNames \cup {Absent}}
    \cup { <<Entry("db_identifier", "db-9"), Entry("db_identifier", "db-1"),
             Entry("schedule_name", "office-hours")>>,
           <<Entry(Absent, "db-1")>>,
           <<Entry("db_identifier", "db-1"), Entry("schedule_name", Absent)>> }
ParameterValues ==
    { [kind |-> "missing", items |-> <<>>], [kind |-> "null", items |-> <<>>] }
    \cup {[kind |-> "list", items |-> l] : l \in ParameterLists}
\* The payloads the function is invoked with: a JSON object, or any other JSON value.
DictEvents ==
    {[kind |-> "dict", actionGroup |-> a, apiPath |-> p, parameters |-> ps, httpMethod |-> m] :
        a \in ActionGroups, p \in ApiPaths, ps \in ParameterValues, m \in HttpMethods}
OtherEvents ==
    {[kind |-> "list", actionGroup |-> Absent, apiPath |-> Absent,
      parameters |-> [kind |-> "missing", items |-> <<>>], httpMethod |-> Absent]}
Events == DictEvents \cup OtherEvents
NoEvent == [kind |-> "none", actionGroup |-> Absent, apiPath |-> Absent,
            parameters |-> [kind |-> "missing", items |-> <<>>], httpMethod |-> Absent]

\* event.get(key, default)
Get(event, key, default) == IF event[key] = Absent THEN default ELSE event[key]
\* event.get('parameters', [])
ParametersOf(event) ==
    IF event.parameters.kind = "missing" THEN [kind |-> "list", items |-> <<>>]
    ELSE event.parameters
\* event.get raises when the event is no dict.
ReadRaises(event) == event.kind # "dict"
\* {param['name']: param['value'] for param in parameters} raises on None and on an
\* entry without 'name' or 'value'.
ConvertRaises(parameters) ==
    \/ parameters.kind # "list"
    \/ \E i \in 1..Len(parameters.items) :
          parameters.items[i].name = Absent \/ parameters.items[i].value = Absent
\* The dict the comprehension builds (a later entry of the same name wins); get() of a
\* name that is not in it gives None.
RECURSIVE ParamsDict(_)
ParamsDict(items) ==
    IF Len(items) = 0 THEN [n \in ParamNames |-> None]
    ELSE LET e == items[Len(items)]
         IN  [ParamsDict(SubSeq(items, 1, Len(items) - 1)) EXCEPT ![e.name] = e.value]
NoParams == [n \in ParamNames |-> Unbound]

\* The if/elif chain on api_path.
Dispatch(api_path) ==
    CASE api_path = "/update-rds-schedule" -> "update_rds_schedule"
      [] api_path = "/get-rds-schedule" -> "get_rds_schedule"
      [] api_path = "/list-rds-instances" -> "list_rds_instances"
      [] api_path = "/create-schedule" -> "create_schedule"
      [] OTHER -> "unknown"
EntryPc(op) ==
    CASE op = "update_rds_schedule" -> "urs"
      [] op = "get_rds_schedule" -> "grs"
      [] op = "list_rds_instances" -> "list"
      [] op = "create_schedule" -> "cs"
      [] OTHER -> "lh_return"

\* Faulty variant: only db_identifier is required.
UrsInvalidDbOnly(db_identifier, schedule_name) == ~Truthy(db_identifier)
\* update_rds_schedule: if not db_identifier or not schedule_name
UrsInvalid(db_identifier, schedule_name) == ~Truthy(db_identifier) \/ ~Truthy(schedule_name)
\* The Tags argument update_rds_schedule passes to add_tags_to_resource.
ScheduleTags(schedule_name) == <<[Key |-> "Schedule", Value |-> schedule_name]>>
\* Where get_rds_arn's caller goes on with the ARN.
AfterArn(op) == IF op = "update_rds_schedule" THEN "urs_add_tags" ELSE "grs_list_tags"

\* RDS.
InstanceArn(id) == "arn:aws:rds:db:" \o id
ClusterArn(id) == "arn:aws:rds:cluster:" \o id
InstanceArns == {InstanceArn(id) : id \in DbInstances}
ClusterArns == {ClusterArn(id) : id \in DbClusters}
Arns == InstanceArns \cup ClusterArns
TagKeys == {"Schedule", "Environment"}
InitTags == [a \in Arns |-> [k \in TagKeys |-> IF k = "Environment" THEN "prod" ELSE NoTag]]
\* describe_db_instances / describe_db_clusters for one identifier: found, not found,
\* or failed for another reason.
DescribeAnswers(ids, id) == (IF id \in ids THEN {"ok"} ELSE {"rejected"}) \cup {"error"}
\* Any other request: served or failed.
RdsAnswers == {"ok", "error"}
\* add_tags_to_resource: the listed keys are set, the other tags stay.
AddTagsToResource(t, arn, taglist) ==
    [t EXCEPT ![arn] = [k \in TagKeys |->
        LET hits == {i \in 1..Len(taglist) : taglist[i].Key = k}
        IN  IF hits = {} THEN t[arn][k]
            ELSE taglist[CHOOSE i \in hits : \A j \in hits : j <= i].Value]]
\* schedule_tag['Value'] if schedule_tag else None
ScheduleOf(t, arn) == IF t[arn]["Schedule"] = NoTag THEN None ELSE t[arn]["Schedule"]

\* What an operation returns: a dict, told by its first key.
NoListing == [a \in Arns |-> NA]
Result(key, text, schedule) ==
    [key |-> key, text |-> text, schedule |-> schedule, listing |-> NoListing]
NoResult == Result(Unbound, "", NA)
NoResponse ==
    [actionGroup |-> Unbound, apiPath |-> Unbound, httpMethod |-> Unbound,
     httpStatusCode |-> 0, body |-> NoResult]
\* The response dict of lambda_handler; the body is json.dumps of the result.
Response(action, api_path, event, status, result) ==
    [actionGroup |-> action, apiPath |-> api_path,
     httpMethod |-> Get(event, "httpMethod", "POST"),
     httpStatusCode |-> status, body |-> result]

RdsCall(fn, api, target, arg, res) ==
    [fn |-> fn, api |-> api, target |-> target, arg |-> arg, res |-> res]
NewInvocation(event, t) ==
    [pc |-> "lh_read", event |-> event,
     action |-> Unbound, api_path |-> Unbound,
     parameters |-> [kind |-> "missing", items |-> <<>>], params |-> NoParams,
     op |-> "none", arn |-> Unbound, exc |-> "",
     result |-> NoResult, response |-> NoResponse,
     raised |-> FALSE, done |-> FALSE, calls |-> <<>>, pre_tags |-> t]
NoInvocation == [NewInvocation(NoEvent, InitTags) EXCEPT !.pc = "idle", !.done = TRUE]
\* The lambda has not been invoked.
LambdaIdle == tags = InitTags /\ inv = NoInvocation /\ ninv = 0

Init ==
    /\ \E t \in InitTrees : commits = <<[parent |-> NoCommit, tree |-> t]>>
    /\ \E f \in {NoCommit, 1} : refs = [b \in BranchNames |-> IF b = "main" THEN 1 ELSE f]
    /\ manager = [c \in Clients |-> None]
    /\ pc = [c \in Clients |-> "idle"]
    /\ locals = [c \in Clients |-> NoLocals]
    /\ run = [c \in Clients |-> NoRun]
    /\ prev = [c \in Clients |-> Summary(NoRun)]
    /\ ncalls = [c \in Clients |-> 0]
    /\ LambdaIdle

\* GitHubBranchManager(token) with GITHUB_TOKEN = env in the process environment.
Construct(c) ==
    /\ pc[c] = "idle"
    /\ manager[c] = None
    /\ \E token \in TokenArgs, env \in EnvTokens :
        LET t == ResolveToken(token, env)
            r == NewRun("__init__", [NoArgs EXCEPT !.token = token, !.env = env])
        IN  /\ manager' = [manager EXCEPT ![c] = IF TokenMissing(t) THEN None ELSE t]
            /\ run' = [run EXCEPT ![c] = [r EXCEPT !.done = TRUE, !.raised = TokenMissing(t)]]
    /\ prev' = [prev EXCEPT ![c] = Summary(run[c])]
    /\ UNCHANGED <<commits, refs, pc, locals, ncalls, tags, inv, ninv>>

\* The entry of upload_json_file in run r, the host being in state (rf, cm).
EnterUpload(r, rf, cm) ==
    [r EXCEPT !.up_state = "running",
              !.pre_file = FileOn(rf, cm, r.args.branch_name, r.args.file_path)]

\* upload_json_file returns v; create_branch_and_upload_json returns that value directly.
UpReturns(r, v) == [r EXCEPT !.up_state = "returned", !.up_ret = v, !.ret = v, !.done = TRUE]

\* Faulty variant: the orchestrator tries the upload again when it returned None.
PcAfterUpRetry(r, v) ==
    IF r.op = "create_branch_and_upload_json" /\ v = None THEN "up_get_repo" ELSE "idle"
\* Where the client is after upload_json_file returned v in run r: back at the caller
\* (return self.upload_json_file(...) is the orchestrator's last statement).
PcAfterUp(r, v) == "idle"

\* create_branch returns v in run r: the call is over, or the orchestrator goes on.
CbReturns(r, v, rf, cm) ==
    LET r1 == [r EXCEPT !.cb_state = "returned", !.cb_ret = v]
    IN  IF r.op = "create_branch" THEN [r1 EXCEPT !.done = TRUE]
        ELSE IF OrchProceeds(v) THEN EnterUpload(r1, rf, cm)
        ELSE [r1 EXCEPT !.done = TRUE, !.ret = None]
PcAfterCb(r, v) ==
    IF r.op = "create_branch_and_upload_json" /\ OrchProceeds(v)
    THEN "up_get_repo" ELSE "idle"


\* A method of the manager object can be called: the object exists, no call is running.
CanCall(c) == pc[c] = "idle" /\ manager[c] # None /\ ncalls[c] < MaxCalls

\* The run record of a call op(args) that follows the call recorded in last.
\* pre_refs: the host's refs as the call begins.
Begin(op, args, last, rf) ==
    [NewRun(op, args) EXCEPT !.same_args = (last.op = op /\ last.args = args),
                             !.pre_refs = rf]

\* ------------------------------------------------------------ create_branch
\* manager.create_branch(repo_name, branch_name, base_branch)
EnterCreateBranch(c, repo, branch, base) ==
    /\ run' = [run EXCEPT ![c] =
            [Begin("create_branch", [NoArgs EXCEPT !.repo_name = repo,
                                     !.branch_name = branch, !.base_branch = base], run[c], refs)
             EXCEPT !.cb_state = "running"]]
    /\ pc' = [pc EXCEPT ![c] = "cb_get_repo"]
    /\ locals' = [locals EXCEPT ![c] = NoLocals]
    /\ prev' = [prev EXCEPT ![c] = Summary(run[c])]
    /\ ncalls' = [ncalls EXCEPT ![c] = @ + 1]
    /\ UNCHANGED <<commits, refs, manager, tags, inv, ninv>>
CallCreateBranch(c) ==
    /\ CanCall(c)
    /\ \E repo \in RepoNames, branch \in BranchNames, base \in BranchNames :
        EnterCreateBranch(c, repo, branch, base)

\* manager.create_branch_and_upload_json(...): its first statement calls create_branch.
CallCreateBranchAndUploadJson(c) ==
    /\ CanCall(c)
    /\ \E repo \in RepoNames, branch \in BranchNames, base \in BranchNames,
          path \in Paths, data \in JsonData, msg \in Messages :
        run' = [run EXCEPT ![c] =
            [Begin("create_branch_and_upload_json",
                   [NoArgs EXCEPT !.repo_name = repo, !.branch_name = branch,
                                  !.base_branch = base, !.file_path = path,
                                  !.json_data = data, !.commit_message = msg], run[c], refs)
             EXCEPT !.cb_state = "running"]]
    /\ pc' = [pc EXCEPT ![c] = "cb_get_repo"]
    /\ locals' = [locals EXCEPT ![c] = NoLocals]
    /\ prev' = [prev EXCEPT ![c] = Summary(run[c])]
    /\ ncalls' = [ncalls EXCEPT ![c] = @ + 1]
    /\ UNCHANGED <<commits, refs, manager, tags, inv, ninv>>

\* repo = self.github.get_repo(repo_name); an exception returns False.
CbGetRepo(c) ==
    /\ pc[c] = "cb_get_repo"
    /\ \E res \in RepoAnswers(run[c].args.repo_name) :
        LET r == Logged(run[c], Call("create_branch", "get_repo", res,
                                     run[c].args.repo_name, NoCommit, NA))
        IN  IF res = "ok"
            THEN /\ run' = [run EXCEPT ![c] = r]
                 /\ pc' = [pc EXCEPT ![c] = "cb_get_base"]
            ELSE /\ run' = [run EXCEPT ![c] = CbReturns(r, FALSE, refs, commits)]
                 /\ pc' = [pc EXCEPT ![c] = PcAfterCb(r, FALSE)]
    /\ UNCHANGED <<commits, refs, manager, locals, prev, ncalls, tags, inv, ninv>>

\* base_ref = repo.get_git_ref(f"heads/{base_branch}"); base_sha = base_ref.object.sha
CbGetBaseRef(c) ==
    /\ pc[c] = "cb_get_base"
    /\ \E res \in GetRefAnswers(refs, run[c].args.base_branch) :
        LET base == run[c].args.base_branch
            sha == IF res = "ok" THEN refs[base] ELSE NoCommit
            r == Logged(run[c], Call("create_branch", "get_base_ref", res, base, sha, NA))
        IN  /\ locals' = [locals EXCEPT ![c].base_sha = sha]
            /\ IF CbAfterBaseLookup(res) = "return"
               THEN /\ run' = [run EXCEPT ![c] = CbReturns(r, FALSE, refs, commits)]
                    /\ pc' = [pc EXCEPT ![c] = PcAfterCb(r, FALSE)]
               ELSE /\ run' = [run EXCEPT ![c] = r]
                    /\ pc' = [pc EXCEPT ![c] = CbAfterBaseLookup(res)]
    /\ UNCHANGED <<commits, refs, manager, prev, ncalls, tags, inv, ninv>>

\* try: repo.get_git_ref(f"heads/{branch_name}") ... return True; except: create it.
CbGetRef(c) ==
    /\ pc[c] = "cb_get_ref"
    /\ \E res \in GetRefAnswers(refs, run[c].args.branch_name) :
        LET b == run[c].args.branch_name
            sha == IF res = "ok" THEN refs[b] ELSE NoCommit
            r == Logged(run[c], Call("create_branch", "get_git_ref", res, b, sha, NA))
        IN  IF CbAfterLookup(res) = "return"
            THEN /\ refs' = RefsWhenBranchExists(refs, b, locals[c].base_sha)
                 /\ run' = [run EXCEPT ![c] = CbReturns(r, TRUE, refs', commits)]
                 /\ pc' = [pc EXCEPT ![c] = PcAfterCb(r, TRUE)]
            ELSE /\ refs' = refs
                 /\ run' = [run EXCEPT ![c] = r]
                 /\ pc' = [pc EXCEPT ![c] = CbAfterLookup(res)]
    /\ UNCHANGED <<commits, manager, locals, prev, ncalls, tags, inv, ninv>>

\* repo.create_git_ref(ref=f"refs/heads/{branch_name}", sha=base_sha); return True.
\* An exception here leaves the inner handler and returns False.
CbCreateRef(c) ==
    /\ pc[c] = "cb_create_ref"
    /\ LET b == run[c].args.branch_name
           sha == CreateRefSha(locals[c])
       IN \E res \in CreateRefAnswers(refs, commits, b, sha) :
            LET r == Logged(run[c], Call("create_branch", "create_git_ref", res, b, sha, NA))
            IN  /\ refs' = IF res = "ok" THEN [refs EXCEPT ![b] = sha] ELSE refs
                /\ run' = [run EXCEPT ![c] = CbReturns(r, CbAfterCreateRef(res), refs', commits)]
                /\ pc' = [pc EXCEPT ![c] = PcAfterCb(r, CbAfterCreateRef(res))]
    /\ UNCHANGED <<commits, manager, locals, prev, ncalls, tags, inv, ninv>>

\* --------------------------------------------------------- upload_json_file
\* manager.upload_json_file(repo_name, branch_name, file_path, json_data, commit_message)
EnterUploadJsonFile(c, repo, branch, path, data, msg) ==
    /\ run' = [run EXCEPT ![c] =
            EnterUpload(Begin("upload_json_file",
                              [NoArgs EXCEPT !.repo_name = repo, !.branch_name = branch,
                                             !.file_path = path, !.json_data = data,
                                             !.commit_message = msg], run[c], refs),
                        refs, commits)]
    /\ pc' = [pc EXCEPT ![c] = "up_get_repo"]
    /\ locals' = [locals EXCEPT ![c] = NoLocals]
    /\ prev' = [prev EXCEPT ![c] = Summary(run[c])]
    /\ ncalls' = [ncalls EXCEPT ![c] = @ + 1]
    /\ UNCHANGED <<commits, refs, manager, tags, inv, ninv>>
CallUploadJsonFile(c) ==
    /\ CanCall(c)
    /\ \E repo \in RepoNames, branch \in BranchNames,
          path \in Paths, data \in JsonData, msg \in Messages :
        EnterUploadJsonFile(c, repo, branch, path, data, msg)

\* repo = self.github.get_repo(repo_name), then json.dumps and base64 of the data;
\* an exception returns None.
UpGetRepo(c) ==
    /\ pc[c] = "up_get_repo"
    /\ \E res \in RepoAnswers(run[c].args.repo_name) :
        LET r == Logged(run[c], Call("upload_json_file", "get_repo", res,
                                     run[c].args.repo_name, NoCommit, NA))
        IN  IF res = "ok"
            THEN /\ run' = [run EXCEPT ![c] = r]
                 /\ locals' = [locals EXCEPT ![c].encoded_content =
                                   B64Encode(JsonDumps(run[c].args.json_data))]
                 /\ pc' = [pc EXCEPT ![c] = "up_get_contents"]
            ELSE /\ run' = [run EXCEPT ![c] = UpReturns(r, None)]
                 /\ locals' = locals
                 /\ pc' = [pc EXCEPT ![c] = PcAfterUp(r, None)]
    /\ UNCHANGED <<commits, refs, manager, prev, ncalls, tags, inv, ninv>>

\* try: existing_file = repo.get_contents(file_path, ref=branch_name) ...; except: create.
UpGetContents(c) ==
    /\ pc[c] = "up_get_contents"
    /\ LET b == run[c].args.branch_name
           p == run[c].args.file_path
       IN \E res \in GetContentsAnswers(refs, commits, b, p) :
            LET sha == IF res = "ok" THEN BlobSha(FileOn(refs, commits, b, p)) ELSE NA
                r == Logged(run[c], Call("upload_json_file", "get_contents", res, p,
                                         NoCommit, sha))
            IN  /\ run' = [run EXCEPT ![c] = r]
                /\ locals' = [locals EXCEPT ![c].existing_sha = sha]
                /\ pc' = [pc EXCEPT ![c] = UpAfterLookup(res)]
    /\ UNCHANGED <<commits, refs, manager, prev, ncalls, tags, inv, ninv>>

\* repo.update_file(path, message, content, sha=existing_file.sha, branch); return the URL.
\* An exception here is caught by the same bare except as a failed lookup.
UpUpdateFile(c) ==
    /\ pc[c] = "up_update"
    /\ LET a == run[c].args
           sha == UpdateFileSha(locals[c])
       IN \E res \in UpdateFileAnswers(refs, commits, a.branch_name, a.file_path, sha) :
            LET r == Logged(run[c], Call("upload_json_file", "update_file", res,
                                         a.file_path, NoCommit, sha))
            IN  IF res = "ok"
                THEN /\ commits' = CommitWrite(commits, refs, a.branch_name, a.file_path,
                                               locals[c].encoded_content)
                     /\ refs' = [refs EXCEPT ![a.branch_name] = Len(commits')]
                     /\ run' = [run EXCEPT ![c] =
                            UpReturns(r, FileUrl(a.repo_name, a.branch_name, a.file_path))]
                     /\ pc' = [pc EXCEPT ![c] = PcAfterUp(r, run'[c].ret)]
                ELSE /\ UNCHANGED <<commits, refs>>
                     /\ run' = [run EXCEPT ![c] = r]
                     /\ pc' = [pc EXCEPT ![c] = UpAfterUpdateFailed]
    /\ UNCHANGED <<manager, locals, prev, ncalls, tags, inv, ninv>>

\* repo.create_file(path, message, content, branch); return the URL.
\* An exception here reaches the outer handler, which returns None.
UpCreateFile(c) ==
    /\ pc[c] = "up_create"
    /\ LET a == run[c].args
       IN \E res \in CreateFileAnswers(refs, commits, a.branch_name, a.file_path) :
            LET r == Logged(run[c], Call("upload_json_file", "create_file", res,
                                         a.file_path, NoCommit, NA))
            IN  IF res = "ok"
                THEN /\ commits' = CommitWrite(commits, refs, a.branch_name, a.file_path,
                                               locals[c].encoded_content)
                     /\ refs' = [refs EXCEPT ![a.branch_name] = Len(commits')]
                     /\ run' = [run EXCEPT ![c] =
                            UpReturns(r, UpAfterCreate(res, FileUrl(a.repo_name, a.branch_name,
                                                                    a.file_path)))]
                ELSE /\ UNCHANGED <<commits, refs>>
                     /\ run' = [run EXCEPT ![c] =
                            UpReturns(r, UpAfterCreate(res, FileUrl(a.repo_name, a.branch_name,
                                                                    a.file_path)))]
    /\ pc' = [pc EXCEPT ![c] = PcAfterUp(run[c], run'[c].ret)]
    /\ UNCHANGED <<manager, locals, prev, ncalls, tags, inv, ninv>>

\* ------------------------------------------------------------ specification
\* One client at a time: the code is single-threaded and synchronous.
Next ==
    \/ Construct("c1")
    \/ CallCreateBranch("c1")
    \/ CallUploadJsonFile("c1")
    \/ CallCreateBranchAndUploadJson("c1")
    \/ CbGetRepo("c1")
    \/ CbGetBaseRef("c1")
    \/ CbGetRef("c1")
    \/ CbCreateRef("c1")
    \/ UpGetRepo("c1")
    \/ UpGetContents("c1")
    \/ UpUpdateFile("c1")
    \/ UpCreateFile("c1")

Spec == Init /\ [][Next]_vars

\* A remote request of the client's running call is answered. Every remote call of the
\* code is a blocking request that returns or raises, so a call that was started goes on
\* for as long as the host answers.
RemoteStep(c) ==
    \/ CbGetRepo(c)
    \/ CbGetBaseRef(c)
    \/ CbGetRef(c)
    \/ CbCreateRef(c)
    \/ UpGetRepo(c)
    \/ UpGetContents(c)
    \/ UpUpdateFile(c)
    \/ UpCreateFile(c)
SpecLive == Spec /\ WF_vars(RemoteStep("c1"))

\* ------------------------------------------------- two callers, one repository
\* Two managers, already constructed (in two processes or threads), call
\* create_branch or upload_json_file for the same repository, branch and path; the
\* host serves their requests one at a time, in any order.
RaceInit ==
    /\ \E t \in InitTrees : commits = <<[parent |-> NoCommit, tree |-> t]>>
    /\ \E f \in {NoCommit, 1} : refs = [b \in BranchNames |-> IF b = "main" THEN 1 ELSE f]
    /\ manager = [c \in Clients |-> "arg-token"]
    /\ pc = [c \in Clients |-> "idle"]
    /\ locals = [c \in Clients |-> NoLocals]
    /\ run = [c \in Clients |-> NoRun]
    /\ prev = [c \in Clients |-> Summary(NoRun)]
    /\ ncalls = [c \in Clients |-> 0]
    /\ LambdaIdle

TotalCalls == ncalls["c1"] + ncalls["c2"]
RaceCanCall(c) == pc[c] = "idle" /\ manager[c] # None /\ TotalCalls < MaxRaceCalls

RaceCreateBranch(c) ==
    /\ RaceCanCall(c)
    /\ EnterCreateBranch(c, "acme/widgets", "feature-x", "main")
RaceUploadJsonFile(c) ==
    /\ RaceCanCall(c)
    /\ \E data \in JsonData, msg \in Messages :
        EnterUploadJsonFile(c, "acme/widgets", "feature-x", "config/settings.json", data, msg)

RaceNext ==
    \E c \in Clients :
        \/ RaceCreateBranch(c)
        \/ RaceUploadJsonFile(c)
        \/ CbGetRepo(c)
        \/ CbGetBaseRef(c)
        \/ CbGetRef(c)
        \/ CbCreateRef(c)
        \/ UpGetRepo(c)
        \/ UpGetContents(c)
        \/ UpUpdateFile(c)
        \/ UpCreateFile(c)

SpecRace == RaceInit /\ [][RaceNext]_vars

\* ------------------------------------------------------- the lambda's steps
\* The function is invoked with an event.
LambdaInvoke ==
    /\ inv.pc = "idle" /\ ninv < MaxInvocations
    /\ \E event \in Events : inv' = NewInvocation(event, tags)
    /\ ninv' = ninv + 1
    /\ UNCHANGED <<tags, github_vars>>

\* lambda_handler: log the event, read actionGroup, apiPath and parameters from it.
LhReadEvent ==
    /\ inv.pc = "lh_read"
    /\ inv' = IF ReadRaises(inv.event)
              THEN [inv EXCEPT !.pc = "lh_except", !.exc = "AttributeError"]
              ELSE [inv EXCEPT !.action = Get(inv.event, "actionGroup", ""),
                               !.api_path = Get(inv.event, "apiPath", ""),
                               !.parameters = ParametersOf(inv.event),
                               !.pc = "lh_convert"]
    /\ UNCHANGED <<tags, ninv, github_vars>>

\* lambda_handler: convert the parameters to a dict and dispatch on api_path; an unknown
\* path gives the error result without calling anything.
LhConvert ==
    /\ inv.pc = "lh_convert"
    /\ inv' = IF ConvertRaises(inv.parameters)
              THEN [inv EXCEPT !.pc = "lh_except", !.exc = "TypeError or KeyError"]
              ELSE LET op == Dispatch(inv.api_path)
                   IN  [inv EXCEPT !.params = ParamsDict(inv.parameters.items),
                                   !.op = op,
                                   !.pc = EntryPc(op),
                                   !.result = IF op = "unknown"
                                              THEN Result("error", "Unknown API path", NA)
                                              ELSE @]
    /\ UNCHANGED <<tags, ninv, github_vars>>

\* update_rds_schedule: both parameters are required.
UrsValidate ==
    /\ inv.pc = "urs"
    /\ inv' = IF UrsInvalid(inv.params["db_identifier"], inv.params["schedule_name"])
              THEN [inv EXCEPT !.result = Result("error", "db_identifier and schedule_name are required", NA),
                               !.pc = "lh_return"]
              ELSE [inv EXCEPT !.pc = "arn_instances"]
    /\ UNCHANGED <<tags, ninv, github_vars>>

\* get_rds_schedule: db_identifier is required.
GrsValidate ==
    /\ inv.pc = "grs"
    /\ inv' = IF ~Truthy(inv.params["db_identifier"])
              THEN [inv EXCEPT !.result = Result("error", "db_identifier is required", NA),
                               !.pc = "lh_return"]
              ELSE [inv EXCEPT !.pc = "arn_instances"]
    /\ UNCHANGED <<tags, ninv, github_vars>>

\* get_rds_arn: try the identifier as a DB instance; any exception leads to the cluster
\* lookup.
ArnDescribeInstances ==
    /\ inv.pc = "arn_instances"
    /\ LET id == inv.params["db_identifier"]
       IN \E res \in DescribeAnswers(DbInstances, id) :
            LET r == [inv EXCEPT !.calls = Append(@,
                         RdsCall("get_rds_arn", "describe_db_instances", id, NA, res))]
            IN  inv' = IF res = "ok"
                       THEN [r EXCEPT !.arn = InstanceArn(id), !.pc = AfterArn(inv.op)]
                       ELSE [r EXCEPT !.pc = "arn_clusters"]
    /\ UNCHANGED <<tags, ninv, github_vars>>

\* get_rds_arn: try the identifier as a DB cluster; an exception here reaches the
\* calling operation's handler, which returns its error result.
ArnDescribeClusters ==
    /\ inv.pc = "arn_clusters"
    /\ LET id == inv.params["db_identifier"]
       IN \E res \in DescribeAnswers(DbClusters, id) :
            LET r == [inv EXCEPT !.calls = Append(@,
                         RdsCall("get_rds_arn", "describe_db_clusters", id, NA, res))]
            IN  inv' = IF res = "ok"
                       THEN [r EXCEPT !.arn = ClusterArn(id), !.pc = AfterArn(inv.op)]
                       ELSE [r EXCEPT !.result =
                                 Result("error", IF inv.op = "update_rds_schedule"
                                                 THEN "Failed to update schedule"
                                                 ELSE "Failed to get schedule", NA),
                                      !.pc = "lh_return"]
    /\ UNCHANGED <<tags, ninv, github_vars>>

\* update_rds_schedule: add_tags_to_resource(ResourceName=arn, Tags=[Schedule]); the
\* message, or the error result when it raised.
UrsAddTags ==
    /\ inv.pc = "urs_add_tags"
    /\ LET taglist == ScheduleTags(inv.params["schedule_name"])
       IN \E res \in RdsAnswers :
            LET r == [inv EXCEPT !.calls = Append(@,
                         RdsCall("update_rds_schedule", "add_tags_to_resource",
                                 inv.arn, taglist[1].Key, res))]
            IN  IF res = "ok"
                THEN /\ tags' = AddTagsToResource(tags, inv.arn, taglist)
                     /\ inv' = [r EXCEPT !.result = Result("message", "Successfully updated schedule",
                                                           inv.params["schedule_name"]),
                                         !.pc = "lh_return"]
                ELSE /\ tags' = tags
                     /\ inv' = [r EXCEPT !.result = Result("error", "Failed to update schedule", NA),
                                         !.pc = "lh_return"]
    /\ UNCHANGED <<ninv, github_vars>>

\* get_rds_schedule: list_tags_for_resource(ResourceName=arn) and the Schedule tag.
GrsListTags ==
    /\ inv.pc = "grs_list_tags"
    /\ \E res \in RdsAnswers :
        LET r == [inv EXCEPT !.calls = Append(@,
                     RdsCall("get_rds_schedule", "list_tags_for_resource", inv.arn, NA, res))]
        IN  inv' = IF res = "ok"
                   THEN [r EXCEPT !.result = Result("db_identifier", "", ScheduleOf(tags, inv.arn)),
                                  !.pc = "lh_return"]
                   ELSE [r EXCEPT !.result = Result("error", "Failed to get schedule", NA),
                                  !.pc = "lh_return"]
    /\ UNCHANGED <<tags, ninv, github_vars>>

\* list_rds_instances: describe_db_instances().
ListDescribeInstances ==
    /\ inv.pc = "list"
    /\ \E res \in RdsAnswers :
        LET r == [inv EXCEPT !.calls = Append(@,
                     RdsCall("list_rds_instances", "describe_db_instances", NA, NA, res))]
        IN  inv' = IF res = "ok"
                   THEN [r EXCEPT !.result = Result("instances", "", NA),
                                  !.pc = "list_instance_tags"]
                   ELSE [r EXCEPT !.result = Result("error", "Failed to list RDS resources", NA),
                                  !.pc = "lh_return"]
    /\ UNCHANGED <<tags, ninv, github_vars>>

\* list_rds_instances: the Schedule tag of every instance; a failed tag lookup is
\* swallowed and gives None.
ListInstanceTags ==
    /\ inv.pc = "list_instance_tags"
    /\ \E failed \in SUBSET InstanceArns :
        inv' = [inv EXCEPT
                  !.calls = @ \o [i \in 1..Len(DbInstanceList) |->
                      RdsCall("list_rds_instances", "list_tags_for_resource",
                              InstanceArn(DbInstanceList[i]), NA,
                              IF InstanceArn(DbInstanceList[i]) \in failed THEN "error" ELSE "ok")],
                  !.result.listing = [a \in Arns |->
                      IF a \notin InstanceArns THEN @[a]
                      ELSE IF a \in failed THEN None ELSE ScheduleOf(tags, a)],
                  !.pc = "list_clusters"]
    /\ UNCHANGED <<tags, ninv, github_vars>>

\* list_rds_instances: describe_db_clusters().
ListDescribeClusters ==
    /\ inv.pc = "list_clusters"
    /\ \E res \in RdsAnswers :
        LET r == [inv EXCEPT !.calls = Append(@,
                     RdsCall("list_rds_instances", "describe_db_clusters", NA, NA, res))]
        IN  inv' = IF res = "ok"
                   THEN [r EXCEPT !.pc = "list_cluster_tags"]
                   ELSE [r EXCEPT !.result = Result("error", "Failed to list RDS resources", NA),
                                  !.pc = "lh_return"]
    /\ UNCHANGED <<tags, ninv, github_vars>>

\* list_rds_instances: the Schedule tag of every cluster, then the listing is returned.
ListClusterTags ==
    /\ inv.pc = "list_cluster_tags"
    /\ \E failed \in SUBSET ClusterArns :
        inv' = [inv EXCEPT
                  !.calls = @ \o [i \in 1..Len(DbClusterList) |->
                      RdsCall("list_rds_instances", "list_tags_for_resource",
                              ClusterArn(DbClusterList[i]), NA,
                              IF ClusterArn(DbClusterList[i]) \in failed THEN "error" ELSE "ok")],
                  !.result.listing = [a \in Arns |->
                      IF a \notin ClusterArns THEN @[a]
                      ELSE IF a \in failed THEN None ELSE ScheduleOf(tags, a)],
                  !.pc = "lh_return"]
    /\ UNCHANGED <<tags, ninv, github_vars>>

\* create_schedule: schedule_name is required; otherwise the placeholder message.
CreateSchedule ==
    /\ inv.pc = "cs"
    /\ inv' = IF ~Truthy(inv.params["schedule_name"])
              THEN [inv EXCEPT !.result = Result("error", "schedule_name is required", NA),
                               !.pc = "lh_return"]
              ELSE [inv EXCEPT !.result = Result("message", "Schedule created successfully",
                                                 inv.params["schedule_name"]),
                               !.pc = "lh_return"]
    /\ UNCHANGED <<tags, ninv, github_vars>>

\* lambda_handler: the response with status 200 around the operation's result.
LhReturn ==
    /\ inv.pc = "lh_return"
    /\ inv' = [inv EXCEPT !.response = Response(inv.action, inv.api_path, inv.event, 200, inv.result),
                          !.done = TRUE, !.pc = "idle"]
    /\ UNCHANGED <<tags, ninv, github_vars>>

\* lambda_handler: except Exception. The handler builds the response with status 500
\* from action and api_path; when the exception came before they were assigned,
\* reading them raises (UnboundLocalError) and the invocation ends with that exception.
LhExcept ==
    /\ inv.pc = "lh_except"
    /\ inv' = IF inv.action = Unbound \/ inv.api_path = Unbound
              THEN [inv EXCEPT !.raised = TRUE, !.exc = "UnboundLocalError",
                               !.done = TRUE, !.pc = "idle"]
              ELSE [inv EXCEPT !.response = Response(inv.action, inv.api_path, inv.event, 500,
                                                     Result("error", inv.exc, NA)),
                               !.done = TRUE, !.pc = "idle"]
    /\ UNCHANGED <<tags, ninv, github_vars>>

LambdaInit ==
    /\ commits = <<[parent |-> NoCommit, tree |-> EmptyTree]>>
    /\ refs = [b \in BranchNames |-> IF b = "main" THEN 1 ELSE NoCommit]
    /\ manager = [c \in Clients |-> None]
    /\ pc = [c \in Clients |-> "idle"]
    /\ locals = [c \in Clients |-> NoLocals]
    /\ run = [c \in Clients |-> NoRun]
    /\ prev = [c \in Clients |-> Summary(NoRun)]
    /\ ncalls = [c \in Clients |-> 0]
    /\ LambdaIdle

LambdaNext ==
    \/ LambdaInvoke
    \/ LhReadEvent
    \/ LhConvert
    \/ UrsValidate
    \/ GrsValidate
    \/ ArnDescribeInstances
    \/ ArnDescribeClusters
    \/ UrsAddTags
    \/ GrsListTags
    \/ ListDescribeInstances
    \/ ListInstanceTags
    \/ ListDescribeClusters
    \/ ListClusterTags
    \/ CreateSchedule
    \/ LhReturn
    \/ LhExcept

SpecLambda == LambdaInit /\ [][LambdaNext]_vars


\* ------------------------------------------------------------------ claims
TheRun == run["c1"]
ThePrev == prev["c1"]
UpUpdates(r) == NCalls(r, "upload_json_file", "update_file")
UpCreates(r) == NCalls(r, "upload_json_file", "create_file")
\* upload_json_file has returned in run r, and its lookup of the file was answered
\* from the host's state.
UploadAnswered(r) ==
    /\ r.up_state = "returned"
    /\ \E i \in CallsOf(r, "upload_json_file", "get_contents") : r.calls[i].res # "error"

\* C1: an upload_json_file call whose lookup the host answered issues exactly one
\* create_file and no update_file when the path was absent before the call, exactly
\* one update_file and no create_file when it was present, and never both, also when
\* the host rejects the update.
C1_UpsertExactlyOne ==
    UploadAnswered(TheRun) =>
        /\ TheRun.pre_file = NoFile => UpCreates(TheRun) = 1 /\ UpUpdates(TheRun) = 0
        /\ TheRun.pre_file # NoFile => UpUpdates(TheRun) = 1 /\ UpCreates(TheRun) = 0
        /\ ~(UpUpdates(TheRun) > 0 /\ UpCreates(TheRun) > 0)

\* C2: in create_branch_and_upload_json, once create_branch has returned False the
\* run is over with None, upload_json_file was not entered and none of its remote
\* calls was issued.
C2_FailFast ==
    (/\ TheRun.op = "create_branch_and_upload_json"
     /\ TheRun.cb_state = "returned"
     /\ ~TheRun.cb_ret)
    => /\ TheRun.up_state = "none"
       /\ \A i \in 1..Len(TheRun.calls) : TheRun.calls[i].fn = "create_branch"
       /\ TheRun.done /\ TheRun.ret = None
       /\ pc["c1"] = "idle"
\* The orchestrator stopped because the creation of the branch ref failed.
C2_Witness ==
    /\ TheRun.op = "create_branch_and_upload_json"
    /\ TheRun.cb_state = "returned" /\ ~TheRun.cb_ret
    /\ \E i \in CallsOf(TheRun, "create_branch", "create_git_ref") :
            TheRun.calls[i].res # "ok"
    /\ TheRun.done


RefCreates(r) == NCalls(r, "create_branch", "create_git_ref")

\* C3: create_branch returns True whenever the repository and the base branch resolve
\* and no request fails; a second create_branch with the arguments of a first one
\* that returned True issues no create_git_ref and returns True; one call issues at
\* most one create_git_ref, so the two calls create at most one ref.
C3_BranchEnsurerIdempotent ==
    /\ (/\ TheRun.op = "create_branch" /\ TheRun.done /\ Clean(TheRun)
        /\ TheRun.args.repo_name \in HostRepos
        /\ TheRun.pre_refs[TheRun.args.base_branch] # NoCommit)
       => TheRun.cb_ret
    /\ (/\ TheRun.op = "create_branch" /\ TheRun.same_args
        /\ ThePrev.op = "create_branch" /\ ThePrev.cb_ret
        /\ Clean(TheRun))
       => /\ RefCreates(TheRun) = 0
          /\ TheRun.done => TheRun.cb_ret
    /\ RefCreates(TheRun) <= 1
\* The first call created the branch, the second one with the same arguments returned True.
C3_Witness ==
    /\ TheRun.op = "create_branch" /\ TheRun.same_args /\ TheRun.done
    /\ ThePrev.op = "create_branch" /\ ThePrev.cb_ret /\ ThePrev.created_ref
    /\ Clean(TheRun) /\ TheRun.cb_ret

\* C4: upload_json_file returns the locator whenever the repository resolves, the
\* branch exists and no request fails; a second upload_json_file with the arguments
\* of a first one that returned the locator returns the same locator, issues no
\* create_file and exactly one update_file, accepted, whose sha is the token of the
\* content the first call wrote.
C4_FileUpserterIdempotent ==
    LET a == TheRun.args
        written == B64Encode(JsonDumps(a.json_data))
    IN  /\ (/\ TheRun.op = "upload_json_file" /\ TheRun.done /\ Clean(TheRun)
            /\ a.repo_name \in HostRepos
            /\ TheRun.pre_refs[a.branch_name] # NoCommit)
           => TheRun.ret # None
        /\ (/\ TheRun.op = "upload_json_file" /\ TheRun.same_args /\ TheRun.done
            /\ ThePrev.op = "upload_json_file" /\ ThePrev.ret # None
            /\ Clean(TheRun))
           => /\ TheRun.ret = ThePrev.ret /\ TheRun.ret # None
              /\ UpCreates(TheRun) = 0
              /\ UpUpdates(TheRun) = 1
              /\ \A i \in CallsOf(TheRun, "upload_json_file", "update_file") :
                    /\ TheRun.calls[i].sha = BlobSha(written)
                    /\ TheRun.calls[i].res = "ok"
\* The second of two identical uploads has returned.
C4_Witness ==
    /\ TheRun.op = "upload_json_file" /\ TheRun.same_args /\ TheRun.done
    /\ ThePrev.op = "upload_json_file" /\ ThePrev.ret # None
    /\ Clean(TheRun) /\ UpUpdates(TheRun) = 1 /\ TheRun.ret # None

\* The locator of every (repository, branch, path) of the model, written out.
LocatorTable ==
    { <<"acme/widgets", "feature-x", "config/settings.json",
        "https://github.com/acme/widgets/blob/feature-x/config/settings.json">>,
      <<"acme/widgets", "feature-x", "data/config.json",
        "https://github.com/acme/widgets/blob/feature-x/data/config.json">>,
      <<"acme/widgets", "main", "config/settings.json",
        "https://github.com/acme/widgets/blob/main/config/settings.json">>,
      <<"acme/widgets", "main", "data/config.json",
        "https://github.com/acme/widgets/blob/main/data/config.json">>,
      <<"acme/gone", "feature-x", "config/settings.json",
        "https://github.com/acme/gone/blob/feature-x/config/settings.json">>,
      <<"acme/gone", "feature-x", "data/config.json",
        "https://github.com/acme/gone/blob/feature-x/data/config.json">>,
      <<"acme/gone", "main", "config/settings.json",
        "https://github.com/acme/gone/blob/main/config/settings.json">>,
      <<"acme/gone", "main", "data/config.json",
        "https://github.com/acme/gone/blob/main/data/config.json">> }

\* C5: whatever upload_json_file returns other than None is the locator of its
\* repo_name, branch_name and file_path, after a create as after an update and
\* whatever the content; the orchestrator returns the same value.
C5_LocatorDeterminism ==
    (TheRun.up_state = "returned" /\ TheRun.up_ret # None)
    => /\ <<TheRun.args.repo_name, TheRun.args.branch_name, TheRun.args.file_path,
            TheRun.up_ret>> \in LocatorTable
       /\ TheRun.ret = TheRun.up_ret
\* The example of the specification, returned after an update of the file.
C5_Witness ==
    /\ TheRun.up_state = "returned"
    /\ TheRun.args.repo_name = "acme/widgets" /\ TheRun.args.branch_name = "feature-x"
    /\ TheRun.args.file_path = "config/settings.json"
    /\ UpUpdates(TheRun) = 1 /\ UpCreates(TheRun) = 0
    /\ TheRun.up_ret = "https://github.com/acme/widgets/blob/feature-x/config/settings.json"


\* The content of the run's file_path in commit n.
FileIn(n, r) == commits[n].tree[r.args.file_path]

\* C6: a create_branch_and_upload_json run in which the repository resolves, no
\* request fails, the base branch is at commit C, the target branch is absent and the
\* path is absent at C: resolves the base to C in that run, issues one create_git_ref,
\* for the target branch at C, accepted, then one create_file and no update_file,
\* returns the locator, and leaves the branch one commit above C holding the file.
C6_FreshBranchNewFile ==
    LET r == TheRun
        a == r.args
        C == r.pre_refs[a.base_branch]
    IN  (/\ r.op = "create_branch_and_upload_json" /\ r.done /\ Clean(r)
         /\ a.repo_name \in HostRepos
         /\ C # NoCommit
         /\ r.pre_refs[a.branch_name] = NoCommit
         /\ FileIn(C, r) = NoFile)
        => /\ \E j \in CallsOf(r, "create_branch", "get_base_ref") : r.calls[j].commit = C
           /\ RefCreates(r) = 1
           /\ \A i \in CallsOf(r, "create_branch", "create_git_ref") :
                /\ r.calls[i].target = a.branch_name
                /\ r.calls[i].commit = C
                /\ r.calls[i].res = "ok"
                /\ \A k \in CallsOf(r, "upload_json_file", "create_file") : i < k
           /\ UpCreates(r) = 1 /\ UpUpdates(r) = 0
           /\ <<a.repo_name, a.branch_name, a.file_path, r.ret>> \in LocatorTable
           /\ commits[refs[a.branch_name]].parent = C
           /\ FileIn(refs[a.branch_name], r) # NoFile
\* A fresh feature-x was created from main and the new file uploaded to it.
C6_Witness ==
    /\ TheRun.op = "create_branch_and_upload_json" /\ TheRun.done /\ Clean(TheRun)
    /\ TheRun.args.base_branch = "main" /\ TheRun.args.branch_name = "feature-x"
    /\ TheRun.pre_refs["feature-x"] = NoCommit
    /\ RefCreates(TheRun) = 1 /\ UpCreates(TheRun) = 1 /\ UpUpdates(TheRun) = 0
    /\ TheRun.ret # None

\* Every update_file of a run carries the token that the get_contents of that run returned.
TokenReadInSameCall(r) ==
    /\ NCalls(r, "upload_json_file", "get_contents") <= 1
    /\ \A i \in CallsOf(r, "upload_json_file", "update_file") :
        \E j \in CallsOf(r, "upload_json_file", "get_contents") :
            j < i /\ r.calls[j].res = "ok" /\ r.calls[j].sha = r.calls[i].sha
\* What C7 expects of run r: no ref creation, one update_file with the token of the
\* file that was on the branch, no create_file, the locator returned.
UpdatedInPlace(r) ==
    /\ RefCreates(r) = 0
    /\ UpUpdates(r) = 1 /\ UpCreates(r) = 0
    /\ \A i \in CallsOf(r, "upload_json_file", "update_file") :
            r.calls[i].sha = BlobSha(FileIn(r.pre_refs[r.args.branch_name], r))
    /\ <<r.args.repo_name, r.args.branch_name, r.args.file_path, r.ret>> \in LocatorTable
\* Run r is a finished create_branch_and_upload_json whose target branch existed with
\* the file on it, with the repository resolving and no request failing.
ExistingBranchAndFile(r) ==
    /\ r.op = "create_branch_and_upload_json" /\ r.done /\ Clean(r)
    /\ r.args.repo_name \in HostRepos
    /\ r.pre_refs[r.args.branch_name] # NoCommit
    /\ FileIn(r.pre_refs[r.args.branch_name], r) # NoFile

\* C7 as stated: whenever the target branch exists with the file on it (and no request
\* fails), the run creates no ref, issues one update_file with the file's token and
\* returns the locator; every update_file carries the token read in the same call.
C7_ExistingBranchExistingFile ==
    /\ ExistingBranchAndFile(TheRun) => UpdatedInPlace(TheRun)
    /\ TokenReadInSameCall(TheRun)
\* C7 amended: the same, provided the base branch resolves too.
C7_ExistingBranchExistingFileBaseResolves ==
    /\ (/\ ExistingBranchAndFile(TheRun)
        /\ TheRun.pre_refs[TheRun.args.base_branch] # NoCommit)
       => UpdatedInPlace(TheRun)
    /\ TokenReadInSameCall(TheRun)
\* The file on the existing branch was updated by the orchestrator.
C7_Witness ==
    /\ ExistingBranchAndFile(TheRun)
    /\ TheRun.pre_refs[TheRun.args.base_branch] # NoCommit
    /\ UpUpdates(TheRun) = 1
    /\ TheRun.ret # None

\* C8: once the lookup of the base branch has failed in a run, create_branch has
\* returned False without looking up or creating the target ref, the refs are as
\* before the call, and the orchestrator has returned None without entering
\* upload_json_file; a base branch absent as the call begins has that effect whenever
\* create_branch returns.
C8_MissingBase ==
    LET r == TheRun
        unresolved ==
            \/ \E i \in CallsOf(r, "create_branch", "get_base_ref") : r.calls[i].res # "ok"
            \/ /\ r.op \in {"create_branch", "create_branch_and_upload_json"}
               /\ r.cb_state = "returned"
               /\ r.pre_refs[r.args.base_branch] = NoCommit
    IN  unresolved
        => /\ r.cb_state = "returned" /\ ~r.cb_ret
           /\ RefCreates(r) = 0
           /\ NCalls(r, "create_branch", "get_git_ref") = 0
           /\ refs = r.pre_refs
           /\ r.done /\ r.up_state = "none"
           /\ \A i \in 1..Len(r.calls) : r.calls[i].fn = "create_branch"
           /\ r.op = "create_branch_and_upload_json" => r.ret = None
\* The orchestrator was given a base branch the host does not have.
C8_Witness ==
    /\ TheRun.op = "create_branch_and_upload_json"
    /\ TheRun.pre_refs[TheRun.args.base_branch] = NoCommit
    /\ \E i \in CallsOf(TheRun, "create_branch", "get_base_ref") :
            TheRun.calls[i].res = "rejected"
    /\ TheRun.done /\ TheRun.ret = None

CbPcs == {"cb_get_repo", "cb_get_base", "cb_get_ref", "cb_create_ref"}

\* C9: a step of create_branch leaves every existing ref at its commit and adds no
\* commit; the only change it makes to the refs is to set the absent ref of its
\* branch_name to the base head it resolved.
C9_EnsurerNeverMovesRefs ==
    [][pc["c1"] \in CbPcs =>
        /\ commits' = commits
        /\ \A b \in BranchNames :
            /\ refs[b] # NoCommit => refs'[b] = refs[b]
            /\ refs'[b] # refs[b] =>
                /\ b = run["c1"].args.branch_name
                /\ refs'[b] = locals["c1"].base_sha
                /\ refs'[b] # NoCommit]_vars
\* create_branch returned True for a target branch that existed at another commit
\* than the base head, and the refs are as before.
C9_Witness ==
    /\ TheRun.op = "create_branch" /\ TheRun.done /\ TheRun.cb_ret
    /\ TheRun.pre_refs[TheRun.args.branch_name] # NoCommit
    /\ TheRun.pre_refs[TheRun.args.base_branch] # NoCommit
    /\ TheRun.pre_refs[TheRun.args.branch_name] # TheRun.pre_refs[TheRun.args.base_branch]
    /\ refs = TheRun.pre_refs

\* C10: the constructor raises exactly when neither the token argument nor
\* GITHUB_TOKEN is a non-empty string, and then no manager exists; otherwise the
\* manager holds the argument if it is non-empty, else the variable.  While no
\* manager exists no method runs and no remote request has been made.
C10_MissingCredentialFailsAtStartup ==
    LET t == TheRun.args.token
        e == TheRun.args.env
    IN  /\ manager["c1"] = None =>
            /\ TheRun.op \in {"none", "__init__"}
            /\ pc["c1"] = "idle"
            /\ TheRun.calls = <<>>
            /\ Len(commits) = 1
        /\ TheRun.op = "__init__" =>
            /\ TheRun.raised <=> (t \in {None, ""} /\ e \in {None, ""})
            /\ TheRun.raised => manager["c1"] = None
            /\ ~TheRun.raised => manager["c1"] = (IF t = "arg-token" THEN t ELSE e)
            /\ ~TheRun.raised => manager["c1"] \in {"arg-token", "env-token"}
\* The constructor raised: empty token argument, GITHUB_TOKEN not set.
C10_Witness ==
    /\ TheRun.op = "__init__" /\ TheRun.raised
    /\ TheRun.args.token = "" /\ TheRun.args.env = None
    /\ manager["c1"] = None


\* Run r holds a call of api from fn that did not succeed.
Failed(r, fn, api) == \E i \in CallsOf(r, fn, api) : r.calls[i].res # "ok"
\* Run r holds a call from fn that failed, the branch or file being absent at a
\* lookup not counted (that is the expected way to the creation).
AnyFailure(r, fn) ==
    \E i \in 1..Len(r.calls) :
        /\ r.calls[i].fn = fn
        /\ \/ r.calls[i].res = "error"
           \/ r.calls[i].res = "rejected" /\ r.calls[i].api \notin {"get_git_ref", "get_contents"}
\* The values a finished call of the orchestrator or of upload_json_file returns.
LocatorOrNone(r) ==
    \/ r.ret = None
    \/ <<r.args.repo_name, r.args.branch_name, r.args.file_path, r.ret>> \in LocatorTable
\* No call of a method leaves by an exception, and a finished call is back at the caller.
ReturnsNormally(r) ==
    /\ r.op # "__init__" => ~r.raised
    /\ r.done <=> pc["c1"] = "idle"
    /\ (r.op \in {"upload_json_file", "create_branch_and_upload_json"} /\ r.done)
       => LocatorOrNone(r)

\* C11 as stated: whenever any remote call of create_branch failed it returns False,
\* whenever any remote call of upload_json_file failed it returns None, and no call
\* leaves by an exception.
C11_EveryFailureSignalled ==
    /\ (TheRun.cb_state = "returned" /\ AnyFailure(TheRun, "create_branch"))
       => ~TheRun.cb_ret
    /\ (TheRun.up_state = "returned" /\ AnyFailure(TheRun, "upload_json_file"))
       => TheRun.up_ret = None
    /\ ReturnsNormally(TheRun)
\* C11 amended: create_branch returns False exactly when get_repo, the base lookup or
\* create_git_ref failed; upload_json_file returns None exactly when get_repo or
\* create_file failed, which includes every run whose update_file failed; a failed
\* lookup of the target branch or of the file is no failure by itself; no call leaves
\* by an exception and the orchestrator returns a locator or None.
C11_TwoValuedFailure ==
    /\ TheRun.cb_state = "returned" =>
        (~TheRun.cb_ret <=>
            \/ Failed(TheRun, "create_branch", "get_repo")
            \/ Failed(TheRun, "create_branch", "get_base_ref")
            \/ Failed(TheRun, "create_branch", "create_git_ref"))
    /\ TheRun.up_state = "returned" =>
        /\ TheRun.up_ret = None <=>
            \/ Failed(TheRun, "upload_json_file", "get_repo")
            \/ Failed(TheRun, "upload_json_file", "create_file")
        /\ Failed(TheRun, "upload_json_file", "update_file") => TheRun.up_ret = None
    /\ ReturnsNormally(TheRun)
\* upload_json_file returned None after the host refused the update and then the create.
C11_Witness ==
    /\ TheRun.op = "upload_json_file" /\ TheRun.done /\ TheRun.ret = None
    /\ Failed(TheRun, "upload_json_file", "update_file")
    /\ Failed(TheRun, "upload_json_file", "create_file")


\* The remote calls the code can issue, by the method issuing them.
ApiCalls ==
    { <<"create_branch", "get_repo">>, <<"create_branch", "get_base_ref">>,
      <<"create_branch", "get_git_ref">>, <<"create_branch", "create_git_ref">>,
      <<"upload_json_file", "get_repo">>, <<"upload_json_file", "get_contents">>,
      <<"upload_json_file", "update_file">>, <<"upload_json_file", "create_file">> }

\* C12: a create_branch_and_upload_json run enters create_branch once and
\* upload_json_file at most once (each remote call of either at most once); when the
\* run created the branch and its upload returned None, the run returns None, the
\* created ref is still where it was put and the run's last remote call is one of
\* upload_json_file's: nothing was issued to undo the branch.
C12_NoRetryNoRollback ==
    LET r == TheRun
    IN  r.op = "create_branch_and_upload_json" =>
        /\ \A fa \in ApiCalls : NCalls(r, fa[1], fa[2]) <= 1
        /\ \A i \in 1..Len(r.calls) : <<r.calls[i].fn, r.calls[i].api>> \in ApiCalls
        /\ \A i, j \in 1..Len(r.calls) :
            (r.calls[i].fn = "upload_json_file" /\ r.calls[j].fn = "create_branch") => j < i
        /\ (r.done /\ CreatedRef(r) /\ r.up_ret = None) =>
            /\ r.ret = None
            /\ r.up_state = "returned"
            /\ r.calls[Len(r.calls)].fn = "upload_json_file"
            /\ \A i \in CallsOf(r, "create_branch", "create_git_ref") :
                    refs[r.args.branch_name] = r.calls[i].commit
\* The run created the branch, then its create_file failed.
C12_Witness ==
    /\ TheRun.op = "create_branch_and_upload_json" /\ TheRun.done
    /\ CreatedRef(TheRun)
    /\ Failed(TheRun, "upload_json_file", "create_file")
    /\ TheRun.ret = None
    /\ refs[TheRun.args.branch_name] # NoCommit


\* The run before the current one was a create_branch_and_upload_json with the same
\* arguments that created the branch and returned None, and no request of the current
\* one fails.
RerunAfterPartial(r) ==
    /\ r.op = "create_branch_and_upload_json" /\ r.same_args
    /\ ThePrev.op = "create_branch_and_upload_json"
    /\ ThePrev.created_ref /\ ThePrev.ret = None
    /\ Clean(r)

\* C13: the run that follows, with the same arguments and no failing request, a
\* create_branch_and_upload_json that created the branch and failed at the upload
\* issues no create_git_ref, returns the locator and leaves the file, with the
\* content given, on the branch.
C13_RerunRepairs ==
    LET r == TheRun
    IN  RerunAfterPartial(r) =>
        /\ RefCreates(r) = 0
        /\ r.done =>
            /\ r.ret # None /\ LocatorOrNone(r)
            /\ FileOn(refs, commits, r.args.branch_name, r.args.file_path)
                    = B64Encode(JsonDumps(r.args.json_data))
\* The second run has returned the locator.
C13_Witness ==
    /\ RerunAfterPartial(TheRun) /\ TheRun.done
    /\ TheRun.ret # None
    /\ UpCreates(TheRun) = 1



\* ---------------------------------------------------------------- C14
Writes(r) == {i \in 1..Len(r.calls) : r.calls[i].api \in {"update_file", "create_file"}}
RejectedWrite(r) == \E i \in Writes(r) : r.calls[i].res = "rejected"
AcceptedWrite(r) == \E i \in Writes(r) : r.calls[i].res = "ok"
Encoded(r) == B64Encode(JsonDumps(r.args.json_data))
Locator(r) == FileUrl(r.args.repo_name, r.args.branch_name, r.args.file_path)
\* The current calls of the two clients are finished uploads to the same existing
\* branch and the same path, and the host answered every request of both from its state.
RacedUploads ==
    /\ \A c \in Clients :
        /\ run[c].op = "upload_json_file" /\ run[c].done
        /\ Clean(run[c])
        /\ run[c].pre_refs[run[c].args.branch_name] # NoCommit
    /\ run["c1"].args.repo_name = run["c2"].args.repo_name
    /\ run["c1"].args.branch_name = run["c2"].args.branch_name
    /\ run["c1"].args.file_path = run["c2"].args.file_path
\* C14: of two upload_json_file calls on the same branch and path, in any
\* interleaving, a call whose write the host rejects (stale revision token, or a
\* create for a path that exists) returns None and has no accepted write, the other
\* call returns the locator, and the file ends with the content of a call whose write
\* was accepted: the rejected call overwrites nothing.
C14_RacingUploads ==
    RacedUploads =>
        \A c \in Clients : \A d \in Clients \ {c} :
            /\ RejectedWrite(run[c]) =>
                /\ run[c].ret = None
                /\ ~AcceptedWrite(run[c])
                /\ run[d].ret = Locator(run[d])
                /\ AcceptedWrite(run[d])
                /\ FileOn(refs, commits, run[d].args.branch_name, run[d].args.file_path)
                       = Encoded(run[d])
            /\ FileOn(refs, commits, run[c].args.branch_name, run[c].args.file_path)
                   \in {Encoded(run[e]) : e \in {x \in Clients : AcceptedWrite(run[x])}}
\* Both calls read the same revision token, c2 wrote first, and c1's update with the
\* then stale token was rejected.
C14_Witness ==
    /\ RacedUploads
    /\ \E i \in CallsOf(run["c1"], "upload_json_file", "update_file") :
          run["c1"].calls[i].res = "rejected"
    /\ \E i \in CallsOf(run["c2"], "upload_json_file", "update_file") :
          /\ run["c2"].calls[i].res = "ok"
          /\ \E j \in CallsOf(run["c1"], "upload_json_file", "update_file") :
                run["c1"].calls[j].sha = run["c2"].calls[i].sha
    /\ run["c1"].args.json_data # run["c2"].args.json_data
    /\ run["c1"].ret = None


\* ---------------------------------------------------------------- C15
\* The state of a create_branch_and_upload_json run r.
OrchState(r) ==
    IF r.done THEN (IF r.ret # None THEN "FileWritten" ELSE "Failed")
    ELSE IF r.cb_state = "returned" THEN "BranchReady"
    ELSE "BranchPending"
OrchMoves ==
    { <<"BranchPending", "BranchPending">>, <<"BranchPending", "BranchReady">>,
      <<"BranchPending", "Failed">>, <<"BranchReady", "BranchReady">>,
      <<"BranchReady", "FileWritten">>, <<"BranchReady", "Failed">>,
      <<"FileWritten", "FileWritten">>, <<"Failed", "Failed">> }
IsOrch(r) == r.op = "create_branch_and_upload_json"
OrchInvariant ==
    IsOrch(TheRun) =>
        /\ (\E i \in 1..Len(TheRun.calls) : TheRun.calls[i].fn = "upload_json_file")
               => (TheRun.cb_state = "returned" /\ TheRun.cb_ret)
        /\ OrchState(TheRun) = "BranchReady" =>
               (TheRun.cb_ret /\ TheRun.up_state = "running")
        /\ OrchState(TheRun) = "BranchPending" => TheRun.up_state = "none"
        /\ OrchState(TheRun) = "FileWritten" =>
               (TheRun.cb_ret /\ TheRun.up_state = "returned" /\ TheRun.ret = TheRun.up_ret)
        /\ OrchState(TheRun) = "Failed" =>
               /\ TheRun.ret = None
               /\ TheRun.up_state = "returned" => TheRun.up_ret = None
               /\ TheRun.up_state # "returned" => (~TheRun.cb_ret /\ TheRun.up_state = "none")
        /\ TheRun.done <=> pc["c1"] = "idle"
OrchStep ==
    IsOrch(run'["c1"]) =>
        IF ncalls'["c1"] # ncalls["c1"]
        THEN OrchState(run'["c1"]) = "BranchPending" /\ run'["c1"].calls = <<>>
        ELSE /\ IsOrch(TheRun)
             /\ <<OrchState(TheRun), OrchState(run'["c1"])>> \in OrchMoves
             /\ TheRun.done => run'["c1"].calls = TheRun.calls
\* C15: a create_branch_and_upload_json run moves BranchPending -> BranchReady ->
\* FileWritten, or to Failed from BranchPending or BranchReady; no call of
\* upload_json_file's (file read, update, create) is issued before create_branch
\* returned True; FileWritten returns upload_json_file's result unchanged, Failed
\* returns None, no remote call follows a terminal state; and as long as the host
\* answers each request, every run reaches a terminal state.
C15_OrchestratorStateMachine ==
    /\ []OrchInvariant
    /\ [][OrchStep]_vars
    /\ [](IsOrch(TheRun) => <>(IsOrch(TheRun) /\ TheRun.done))
\* A run that went through BranchReady (it created the branch) and ended in FileWritten.
C15_Witness ==
    /\ IsOrch(TheRun) /\ OrchState(TheRun) = "FileWritten"
    /\ CreatedRef(TheRun)
    /\ TheRun.ret = TheRun.up_ret
    /\ NCalls(TheRun, "upload_json_file", "create_file") = 1


\* ---------------------------------------------------------------- C16
NAccepted(r) == Cardinality({i \in Writes(r) : r.calls[i].res = "ok"})
\* upload_json_file has returned: a locator exactly when one write of the call was
\* accepted, and never more than one was.
ResultMatchesWrites ==
    TheRun.up_state = "returned" =>
        /\ NAccepted(TheRun) <= 1
        /\ TheRun.up_ret # None <=> NAccepted(TheRun) = 1
        /\ TheRun.up_ret # None => TheRun.up_ret = Locator(TheRun)
\* A step of a call adds a commit exactly when it logs an accepted write: then one
\* commit, on top of the branch's head, that holds the encoded content at the path and
\* only moves this branch; any other step of upload_json_file leaves history and
\* branches as they are.
WriteAddsOneCommit ==
    ncalls'["c1"] = ncalls["c1"] =>
        LET r == run'["c1"]
            b == r.args.branch_name
            n == Len(commits')
        IN  IF NAccepted(r) = NAccepted(TheRun) + 1
            THEN /\ n = Len(commits) + 1
                 /\ SubSeq(commits', 1, Len(commits)) = commits
                 /\ commits'[n].parent = refs[b]
                 /\ commits'[n].tree[r.args.file_path] = Encoded(r)
                 /\ refs' = [refs EXCEPT ![b] = n]
            ELSE /\ NAccepted(r) = NAccepted(TheRun)
                 /\ commits' = commits
                 /\ pc["c1"] \in {"up_get_repo", "up_get_contents", "up_update", "up_create"}
                        => refs' = refs
\* C16: upload_json_file returns a locator if and only if exactly one write (update_file
\* or create_file) of the call was accepted, and that write adds exactly one commit to
\* the branch; when it returns None no write of the call was accepted and the call
\* left the branch history as it was.
C16_ResultMatchesEffect == []ResultMatchesWrites /\ [][WriteAddsOneCommit]_vars
\* Both outcomes side by side: the previous call's create_file was rejected and gave
\* None; this upload updated the file and returned the locator, one commit further.
C16_Witness ==
    /\ TheRun.op = "upload_json_file" /\ TheRun.done
    /\ NAccepted(TheRun) = 1 /\ UpUpdates(TheRun) = 1
    /\ TheRun.ret = Locator(TheRun)
    /\ Len(commits) = 2
    /\ ThePrev.op = "upload_json_file" /\ ThePrev.ret = None


\* ---------------------------------------------------------------- C17
\* C17: in create_branch any failure of the lookup of the target branch (branch absent,
\* or a transient or authorization error) leads to exactly one create_git_ref with the
\* base branch's head commit; when that creation is rejected create_branch returns
\* False; create_git_ref is attempted only after the base branch resolved and only
\* when the lookup of the target failed.
C17_ExistenceInferredFromFailedLookup ==
    LET r == TheRun
        creates == CallsOf(r, "create_branch", "create_git_ref")
    IN  /\ \A i \in creates :
              /\ \E j \in CallsOf(r, "create_branch", "get_base_ref") :
                    /\ j < i /\ r.calls[j].res = "ok"
                    /\ r.calls[i].commit = r.calls[j].commit
              /\ \E k \in CallsOf(r, "create_branch", "get_git_ref") :
                    k < i /\ r.calls[k].res # "ok"
        /\ Cardinality(creates) <= 1
        /\ r.cb_state = "returned" =>
              /\ Failed(r, "create_branch", "get_git_ref") => Cardinality(creates) = 1
              /\ Failed(r, "create_branch", "create_git_ref") => ~r.cb_ret
\* The target branch exists, its lookup failed for a transient reason, the creation was
\* attempted and rejected, and create_branch returned False.
C17_Witness ==
    /\ TheRun.op = "create_branch" /\ TheRun.done /\ ~TheRun.cb_ret
    /\ TheRun.pre_refs[TheRun.args.branch_name] # NoCommit
    /\ \E k \in CallsOf(TheRun, "create_branch", "get_git_ref") : TheRun.calls[k].res = "error"
    /\ \E i \in CallsOf(TheRun, "create_branch", "create_git_ref") :
          TheRun.calls[i].res = "rejected"


\* ---------------------------------------------------------------- C18
\* The current calls of the two clients are finished create_branch calls with the same
\* arguments, repository and base branch resolvable, every request answered from the
\* host's state.
RacedEnsurers ==
    /\ \A c \in Clients :
        /\ run[c].op = "create_branch" /\ run[c].done
        /\ Clean(run[c])
        /\ run[c].args.repo_name \in HostRepos
        /\ run[c].pre_refs[run[c].args.base_branch] # NoCommit
    /\ run["c1"].args = run["c2"].args
\* C18: of two create_branch calls with identical arguments, in any interleaving, both
\* return True and at most one ref is created; create_branch returns True whenever the
\* target branch exists on the host when it returns.
C18_RacingEnsurers ==
    RacedEnsurers =>
        /\ \A c \in Clients : run[c].cb_ret
        /\ Cardinality({c \in Clients : CreatedRef(run[c])}) <= 1
        /\ refs[run["c1"].args.branch_name] # NoCommit


\* ---------------------------------------------------------------- C19
RdsCallsBy(v, fn) == {i \in 1..Len(v.calls) : v.calls[i].fn = fn}
\* The operations that issued an RDS request in invocation v (get_rds_arn's requests
\* belong to the operation that called it).
OpsCalled(v) ==
    {v.calls[i].fn : i \in 1..Len(v.calls)} \ {"get_rds_arn"}
\* An exception was raised inside lambda_handler's try block during invocation v.
ExceptionInHandler(v) == v.exc # ""
\* C19: lambda_handler never raises: for every event it returns a response whose
\* httpStatusCode is 200 or 500 and which echoes actionGroup and apiPath; the four known
\* apiPath values dispatch to exactly the matching operation; any other apiPath gives
\* status 200 with the 'Unknown API path' error body and no RDS call; an exception at
\* any point of the handling (before action and path were read, or in the conversion of
\* the parameter list) gives the 500 response.
C19_HandlerNeverRaises ==
    inv.done /\ ninv > 0 =>
        /\ ~inv.raised
        /\ inv.response.httpStatusCode \in {200, 500}
        /\ inv.response.actionGroup = Get(inv.event, "actionGroup", "")
        /\ inv.response.apiPath = Get(inv.event, "apiPath", "")
        /\ ExceptionInHandler(inv) <=> inv.response.httpStatusCode = 500
        /\ inv.response.httpStatusCode = 200 =>
              /\ inv.op = Dispatch(inv.event.apiPath)
              /\ OpsCalled(inv) \subseteq {inv.op}
              /\ inv.op = "unknown" =>
                    /\ inv.response.body = Result("error", "Unknown API path", NA)
                    /\ inv.calls = <<>>


\* ---------------------------------------------------------------- C20
TagCalls(v) == {i \in 1..Len(v.calls) : v.calls[i].api = "add_tags_to_resource"}
Tagged(v) == \E i \in TagCalls(v) : v.calls[i].res = "ok"
\* Call i of invocation v is a lookup that resolved identifier id, and arn is what
\* get_rds_arn returns for it.
Resolves(v, i, id, arn) ==
    /\ v.calls[i].fn = "get_rds_arn" /\ v.calls[i].res = "ok" /\ v.calls[i].target = id
    /\ \/ v.calls[i].api = "describe_db_instances" /\ arn = InstanceArn(id)
       \/ v.calls[i].api = "describe_db_clusters" /\ arn = ClusterArn(id)
\* C20: update_rds_schedule calls add_tags_to_resource at most once per request, only
\* when db_identifier and schedule_name are both present and non-empty and get_rds_arn
\* resolved an ARN (the instance lookup first, the cluster lookup only after the
\* instance lookup failed); the call sets only the 'Schedule' tag, to schedule_name; in
\* every other case (a parameter missing, neither lookup resolves, tagging rejected) the
\* result has the 'error' key, nothing is raised and no tag is changed.
C20_TagsOnlyOnValidatedResolvedInput ==
    LET db == inv.params["db_identifier"]
        sn == inv.params["schedule_name"]
    IN  /\ TagCalls(inv) # {} => inv.op = "update_rds_schedule"
        /\ inv.op # "update_rds_schedule" => tags = inv.pre_tags
        /\ inv.op = "update_rds_schedule" =>
            /\ Cardinality(TagCalls(inv)) <= 1
            /\ \A i \in TagCalls(inv) :
                  /\ Truthy(db) /\ Truthy(sn)
                  /\ i > 1 /\ Resolves(inv, i - 1, db, inv.calls[i].target)
                  /\ inv.calls[i].arg = "Schedule"
            /\ \A k \in 1..Len(inv.calls) :
                  /\ inv.calls[k].api = "describe_db_instances" => k = 1
                  /\ inv.calls[k].api = "describe_db_clusters" =>
                        /\ k = 2
                        /\ inv.calls[1].api = "describe_db_instances"
                        /\ inv.calls[1].res # "ok"
            /\ ~inv.raised
            /\ Tagged(inv) =>
                  \A a \in Arns : \A key \in TagKeys :
                      tags[a][key] = IF a = inv.arn /\ key = "Schedule" THEN sn
                                     ELSE inv.pre_tags[a][key]
            /\ ~Tagged(inv) => tags = inv.pre_tags
            /\ inv.done =>
                  /\ inv.response.httpStatusCode = 200
                  /\ inv.response.body.key = IF Tagged(inv) THEN "message" ELSE "error"
\* The identifier was looked up as an instance (not found), then as a cluster (found),
\* and the cluster got the Schedule tag.
C20_Witness ==
    /\ inv.op = "update_rds_schedule" /\ inv.done /\ Tagged(inv)
    /\ Len(inv.calls) = 3
    /\ inv.calls[1].res = "rejected"
    /\ inv.arn = ClusterArn("cluster-1")
    /\ tags[inv.arn]["Schedule"] = "office-hours"
    /\ inv.pre_tags[inv.arn]["Schedule"] = NoTag
    /\ inv.response.body.key = "message"

====
